---- MODULE Spec2Model ----
(***************************************************************************)
(* Model of the recording-session lifecycle of hallmark-record:            *)
(* MultiInputRecorder (src/recorder/multi_input_recorder.py).              *)
(*                                                                         *)
(* The recorder launches one capture subprocess per requested device       *)
(* (start_recording) and shuts them down one after the other               *)
(* (stop_recording).  start_recording does not wait for anything and is    *)
(* one action.  stop_recording blocks in process.wait(), so it is modelled *)
(* statement by statement with a program counter; the subprocesses are the *)
(* environment and act between its steps.                                  *)
(*                                                                         *)
(* Three specifications share the state and the actions:                   *)
(*   Spec       the session lifecycle with one device of each kind;        *)
(*   LaunchSpec the session lifecycle with longer device lists, to follow  *)
(*              launch order and file naming;                              *)
(*   DeviceSpec device enumeration and monitor capture geometry.           *)
(***************************************************************************)
EXTENDS Integers, Sequences, FiniteSets, TLC

\* ------------------------------------------------------------------ bounds
MaxPid == 2        \* subprocesses alive or tracked at one time
MaxPerKind == 1    \* length of one kind's requested device list
MaxClock == 1      \* seconds the wall clock may advance
MaxListed == 2     \* length of the camera list in LaunchSpec
MaxLines == 2      \* lines of the media tool's diagnostic stream
MaxMonitors == 2   \* monitors the OS enumerates

\* ----------------------------------------------------------- python values
None == <<>>
Some(x) == <<x>>

\* Device names are sequences of characters, so that str.replace is computed.
USB_Camera == <<"U", "S", "B", " ", "C", "a", "m">>
Default_Mic == <<"D", "e", "f", " ", "M", "i", "c">>
Primary_Monitor == <<"P", "r", "i", " ", "M", "o", "n">>

Web_Cam == <<"W", "e", "b", " ", "C", "a", "m">>
\* an alternative name of a device, as the media tool prints it
Alt_Name == <<"@", "d", "e", "v", "i", "c", "e", "_", "p", "n", "p">>

CameraNames == {USB_Camera}
MicNames == {Default_Mic}
MonitorDicts == {[name |-> Primary_Monitor, x |-> 0, y |-> 0, width |-> 1921, height |-> 1081]}

SeqsUpTo(S, n) == UNION {[1..k -> S] : k \in 0..n}

\* An optional list argument: None, or a list (possibly empty).
OptLists(S) == {None} \cup {Some(l) : l \in SeqsUpTo(S, MaxPerKind)}

Requests == [cameras : OptLists(CameraNames),
             microphones : OptLists(MicNames),
             monitors : OptLists(MonitorDicts)]

\* The requests of LaunchSpec: two cameras to choose from, in a longer list.
Lists(S, n) == {Some(l) : l \in SeqsUpTo(S, n)}

LaunchRequests == [cameras : Lists(CameraNames \cup {Web_Cam}, MaxListed),
                   microphones : Lists(MicNames, MaxPerKind),
                   monitors : Lists(MonitorDicts, MaxPerKind)]

\* The requests of DeviceSpec: one monitor, its rectangle odd or even, small or
\* large, left of or at the origin.
MonitorWidths == {2, 3, 1920, 1921}
MonitorHeights == {2, 3, 1080, 1081}
MonitorOffsets == {-1920, 0, 1921}

MonitorRectangles == [name : {Primary_Monitor}, x : MonitorOffsets, y : MonitorOffsets,
                      width : MonitorWidths, height : MonitorHeights]

MonitorRequests == [cameras : {None}, microphones : {None},
                    monitors : {Some(<<m>>) : m \in MonitorRectangles}]

\* Python truth value of an optional list: None and [] are false.
Truthy(opt) == opt # None /\ opt[1] # <<>>

Items(opt) == IF Truthy(opt) THEN opt[1] ELSE <<>>

NumDevices(req) == Len(Items(req.cameras)) + Len(Items(req.microphones)) + Len(Items(req.monitors))

\* A call that takes no device lists.
NoRequest == [cameras |-> None, microphones |-> None, monitors |-> None]

Pids == 1..MaxPid

VARIABLES
    is_recording,          \* self.is_recording
    recording_processes,   \* self.recording_processes: list of task dicts
    procs,                 \* the subprocesses: pid -> Popen/OS process state
    files,                 \* the output file of each subprocess on disk
    session_dirs,          \* session directories created on disk
    now,                   \* wall clock, in seconds
    pc,                    \* position inside stop_recording ("idle": no call running)
    stop_idx,              \* position of the for loop of stop_recording
    stop_result,           \* how the last stop_recording ended
    hist,                  \* per subprocess: what stop_recording did to it, in order
    log,                   \* per subprocess: the log entries written about it
    ret,                   \* what the last start_recording or query returned
    last_call,             \* the last public call: the operation, its request,
                           \* is_recording when it was made, what it did in order
                           \* (trace), what its environment answered (outcome)
                           \* and whether it ended with an exception
    callers,               \* the threads inside start_recording: where each is
                           \* and what it returned
    buttons,               \* HallmarkRecordApp: which buttons are enabled (None:
                           \* no main window was made)
    handler,               \* HallmarkRecordApp: the GUI handler that is running
    output_dir,            \* HallmarkRecordApp.output_folder, which its recorder
                           \* got as output_dir
    current_session,       \* HallmarkRecordApp.current_session
    heap,                  \* the dict objects of the process: id -> dict
    config,                \* ConfigManager.config: the id of its dict (0: no manager)
    config_file,           \* the configuration file on disk
    config_calls,          \* how many times ConfigSpec made a manager or wrote to one
    current_index,         \* WizardEditor.stacked_widget.currentIndex()
    current_project,       \* WizardEditor.current_project
    widgets,               \* WizardEditor: what the user has set in the pages
    processor              \* WizardEditor.processor: the VideoProcessor that runs

\* The recorder and its subprocesses.
recorder == <<is_recording, recording_processes, procs, files, session_dirs, now,
              pc, stop_idx, ret, stop_result, hist, log, last_call>>

\* The application window around the recorder.
app == <<buttons, handler, output_dir, current_session>>

\* The configuration manager.
settings == <<heap, config, config_file, config_calls>>

\* The editor wizard.
wizard == <<current_index, current_project, widgets, processor>>

vars == <<recorder, callers, app, settings, wizard>>

\* What a call on the recorder, and a subprocess, leave alone.
others == <<callers, app, settings, wizard>>

\* The recorder without what its last call returned.
session == <<is_recording, recording_processes, procs, files, session_dirs, now,
             pc, stop_idx, stop_result, hist, log>>

\* Popen object and OS process behind it.
\*   state        : "unborn" (not launched), "running", "exited"
\*   stdin_closed : process.stdin.closed (our end of the pipe)
\*   pipe_broken  : the child's end of the stdin pipe is gone (write raises)
\*   killed       : SIGKILL / TerminateProcess was delivered
Unborn == [state |-> "unborn", stdin_closed |-> FALSE, pipe_broken |-> FALSE, killed |-> FALSE]

\* subprocess.Popen(command, stdin=subprocess.PIPE, ...) that succeeded
Popen == [state |-> "running", stdin_closed |-> FALSE, pipe_broken |-> FALSE, killed |-> FALSE]

\* MultiInputRecorder.__init__
NewRecorder ==
    /\ is_recording = FALSE
    /\ recording_processes = <<>>
    /\ procs = [p \in Pids |-> Unborn]
    /\ files = [p \in Pids |-> "missing"]
    /\ session_dirs = {}
    /\ now = 0
    /\ pc = "idle"
    /\ stop_idx = 0
    /\ ret = None
    /\ stop_result = "none"
    /\ hist = [p \in Pids |-> <<>>]
    /\ log = [p \in Pids |-> {}]
    /\ last_call = [op |-> "init", requested |-> 0, was_recording |-> FALSE,
                    request |-> NoRequest, trace |-> <<>>, outcome |-> None,
                    raised |-> FALSE]

\* ------------------------------------------------------------ start_recording

\* str.replace(' ', '_') with nothing replaced (faulty variant of Replace).
Replace_nothing(s) == s

\* str.replace(' ', '_')
Replace(s) == [i \in 1..Len(s) |-> IF s[i] = " " THEN "_" ELSE s[i]]

DigitChars == <<"0", "1", "2", "3", "4", "5", "6", "7", "8", "9">>

\* str(n), and {n} in an f-string, of an int: its decimal digits
RECURSIVE Str(_)
Str(n) ==
    IF n < 0 THEN <<"-">> \o Str(-n)
    ELSE IF n < 10 THEN <<DigitChars[n + 1]>>
    ELSE Str(n \div 10) \o <<DigitChars[(n % 10) + 1]>>

\* Faulty variant of SessionDir: the directory name has no timestamp.
SessionDir_no_timestamp(t) == [root |-> "output_dir", timestamp |-> 0]

\* os.path.join(self.output_dir, f"session_{timestamp}")
SessionDir(t) == [root |-> "output_dir", timestamp |-> t]

\* Faulty variant of OutputPath: the file name is the prefix and the extension.
OutputPath_prefix_only(session_dir, prefix, idx, name, ext) ==
    [dir |-> session_dir, file |-> prefix \o <<".">> \o ext]

\* os.path.join(session_dir, f"{prefix}_{idx+1}_{name.replace(' ', '_')}.{ext}"),
\* idx the 0-based position enumerate() gives
OutputPath(session_dir, prefix, idx, name, ext) ==
    [dir |-> session_dir,
     file |-> prefix \o <<"_">> \o Str(idx + 1) \o <<"_">> \o Replace(name) \o <<".">> \o ext]

camera_ == <<"c", "a", "m", "e", "r", "a">>
mic_ == <<"m", "i", "c">>
monitor_ == <<"m", "o", "n", "i", "t", "o", "r">>
mp4 == <<"m", "p", "4">>
wav == <<"w", "a", "v">>

\* Faulty variant of EvenSize: an odd size is rounded up.
EvenSize_up(n) == IF n % 2 # 0 THEN n + 1 ELSE n

\* if w % 2 != 0: w -= 1
EvenSize(n) == IF n % 2 # 0 THEN n - 1 ELSE n

\* The command of start_camera_recording
CameraCommand(device_name, output_file) ==
    [f |-> "dshow", i |-> <<"v", "i", "d", "e", "o", "=">> \o device_name, out |-> output_file]

\* The command of start_microphone_recording
MicrophoneCommand(device_name, output_file) ==
    [f |-> "dshow", i |-> <<"a", "u", "d", "i", "o", "=">> \o device_name, out |-> output_file]

\* The command of start_monitor_recording
MonitorCommand(monitor, output_file) ==
    [f |-> "gdigrab",
     offset_x |-> Str(monitor.x),
     offset_y |-> Str(monitor.y),
     video_size |-> Str(EvenSize(monitor.width)) \o <<"x">> \o Str(EvenSize(monitor.height)),
     i |-> "desktop",
     out |-> output_file]

\* Faulty variant of LaunchCatches: the handler of a launch catches nothing.
LaunchCatches_nothing(exc) == FALSE

\* except Exception as e: (in start_camera_recording, start_microphone_recording
\* and start_monitor_recording)
LaunchCatches(exc) == exc \in {"OSError", "FileNotFoundError", "PermissionError"}

\* start_camera_recording / start_microphone_recording / start_monitor_recording:
\* the Popen object (here its pid) or, when Popen raised and the handler caught
\* it, None; `raised` when the exception leaves the function
start_input_recording(ok, pid) ==
    IF ok THEN [process |-> Some(pid), raised |-> FALSE]
    ELSE [process |-> None, raised |-> ~LaunchCatches("OSError")]

\* The devices of a request in the order the three loops visit them. `rect` is
\* the rectangle of a monitor as the caller gave it.
CameraEntries(req, session_dir) ==
    [i \in 1..Len(Items(req.cameras)) |->
        LET camera == Items(req.cameras)[i]
            output == OutputPath(session_dir, camera_, i - 1, camera, mp4)
        IN [type |-> "camera", idx |-> i - 1, name |-> camera, rect |-> <<>>,
            output |-> output, command |-> CameraCommand(camera, output)]]

MicrophoneEntries(req, session_dir) ==
    [i \in 1..Len(Items(req.microphones)) |->
        LET mic == Items(req.microphones)[i]
            output == OutputPath(session_dir, mic_, i - 1, mic, wav)
        IN [type |-> "microphone", idx |-> i - 1, name |-> mic, rect |-> <<>>,
            output |-> output, command |-> MicrophoneCommand(mic, output)]]

MonitorEntries(req, session_dir) ==
    [i \in 1..Len(Items(req.monitors)) |->
        LET monitor == Items(req.monitors)[i]
            output == OutputPath(session_dir, monitor_, i - 1, monitor.name, mp4)
        IN [type |-> "monitor", idx |-> i - 1, name |-> monitor.name,
            rect |-> <<monitor.x, monitor.y, monitor.width, monitor.height>>,
            output |-> output, command |-> MonitorCommand(monitor, output)]]

\* Faulty variant of Entries: the monitors are launched first.
Entries_monitors_first(req, session_dir) ==
    MonitorEntries(req, session_dir) \o CameraEntries(req, session_dir)
        \o MicrophoneEntries(req, session_dir)

Entries(req, session_dir) ==
    CameraEntries(req, session_dir) \o MicrophoneEntries(req, session_dir)
        \o MonitorEntries(req, session_dir)

\* The devices whose launch may fail: <<type, idx>>
DeviceKeys(req) ==
    {<<"camera", i - 1>> : i \in 1..Len(Items(req.cameras))}
        \cup {<<"microphone", i - 1>> : i \in 1..Len(Items(req.microphones))}
        \cup {<<"monitor", i - 1>> : i \in 1..Len(Items(req.monitors))}

\* The pids of the tasks of a list.
PidsOf(list) == {list[i].process : i \in 1..Len(list)}

\* The process table slots a new subprocess can get: the OS reuses the pid of a
\* process that has exited, once nothing holds its handle any more.
FreePids == {p \in Pids : procs[p].state # "running" /\ p \notin PidsOf(recording_processes)}

\* A set of pids in increasing order.
RECURSIVE Ascending(_)
Ascending(S) ==
    IF S = {} THEN <<>>
    ELSE LET m == CHOOSE x \in S : \A y \in S : x <= y
         IN <<m>> \o Ascending(S \ {m})

\* What start_recording does, in order: the launch of a device (the call of
\* start_*_recording with its command, and whether Popen succeeded) and the
\* append of its task to self.recording_processes.
LaunchEvent(e, ok) ==
    [ev |-> "launch", type |-> e.type, idx |-> e.idx, name |-> e.name, rect |-> e.rect,
     command |-> e.command, ok |-> ok]

AppendEvent(e, pid) ==
    [ev |-> "append", type |-> e.type, idx |-> e.idx, process |-> pid, output |-> e.output]

\* The loops of start_recording: each device is launched, and appended when the
\* launch returned a process. `fails` are the devices whose Popen raises, `free`
\* the pids the OS hands out next, `trace` what was done so far. An exception
\* that leaves start_*_recording ends the loops.
RECURSIVE LaunchAll(_, _, _, _, _)
LaunchAll(entries, fails, list, free, trace) ==
    IF entries = <<>> THEN [list |-> list, trace |-> trace, raised |-> FALSE]
    ELSE LET e == Head(entries)
             ok == <<e.type, e.idx>> \notin fails
             started == start_input_recording(ok, IF ok THEN Head(free) ELSE 0)
             launched == Append(trace, LaunchEvent(e, ok))
         IN IF started.raised
            THEN [list |-> list, trace |-> launched, raised |-> TRUE]
            ELSE IF started.process # None
            THEN LaunchAll(Tail(entries), fails,
                           Append(list, [type |-> e.type, name |-> e.name,
                                         process |-> started.process[1],
                                         output |-> e.output]),
                           Tail(free),
                           Append(launched, AppendEvent(e, started.process[1])))
            ELSE LaunchAll(Tail(entries), fails, list, free, launched)

\* Faulty variant of AlreadyRecording: the guard is missing.
AlreadyRecording_never == FALSE

\* if self.is_recording: (the guard of start_recording)
AlreadyRecording == is_recording

\* Faulty variant of RecordingFlagAfterStart: the flag is not set.
RecordingFlagAfterStart_never(list) == FALSE

\* self.is_recording = True, at the end of start_recording
RecordingFlagAfterStart(list) == TRUE

\* A public call as last_call remembers it.
Call(op, request, trace, outcome, raised) ==
    [op |-> op, requested |-> NumDevices(request), was_recording |-> is_recording,
     request |-> request, trace |-> trace, outcome |-> outcome, raised |-> raised]

\* A subprocess that has exited: its end of the stdin pipe is gone.
Exited(process) == [process EXCEPT !.state = "exited", !.pipe_broken = TRUE]

\* The body of start_recording, after its guard: the session directory, the
\* three loops, the flag. Some of the subprocesses (`early`) have exited again
\* (device error) by the time it returns: nothing in start_recording looks at
\* a subprocess after Popen returned.
start_session(req, fails, t) ==
    \E session_dir \in {SessionDir(t)}, free \in {FreePids} :
         /\ Cardinality(DeviceKeys(req) \ fails) <= Cardinality(free)
         /\ \E run \in {LaunchAll(Entries(req, session_dir), fails,
                                  recording_processes, Ascending(free), <<>>)} :
            \E new \in {PidsOf(run.list) \ PidsOf(recording_processes)} :
            /\ last_call' = Call("start_recording", req, run.trace, None, run.raised)
            /\ now' = t
            /\ session_dirs' = session_dirs \cup {session_dir}
            /\ recording_processes' = run.list
            /\ \E early \in SUBSET new :
                  procs' = [p \in Pids |->
                              IF p \in early THEN Exited(Popen)
                              ELSE IF p \in new THEN Popen
                              ELSE IF p \in free THEN Unborn ELSE procs[p]]
            /\ files' = [p \in Pids |-> IF p \in free THEN "missing" ELSE files[p]]
            /\ hist' = [p \in Pids |-> IF p \in free THEN <<>> ELSE hist[p]]
            /\ log' = [p \in Pids |-> IF p \in free THEN {} ELSE log[p]]
            /\ is_recording' = IF run.raised THEN is_recording
                               ELSE RecordingFlagAfterStart(run.list)
            /\ ret' = IF run.raised THEN None ELSE Some(session_dir)
            /\ UNCHANGED <<pc, stop_idx, stop_result>>

start_recording(req, fails, t) ==
    /\ pc = "idle"
    /\ IF AlreadyRecording
       THEN /\ last_call' = Call("start_recording", req, <<>>, None, FALSE)
            /\ ret' = None
            /\ UNCHANGED <<is_recording, recording_processes, procs, files, session_dirs,
                           now, pc, stop_idx, stop_result, hist, log>>
       ELSE start_session(req, fails, t)

\* One request for each number of devices a request can name.
RequestsByCount(requests) ==
    {CHOOSE req \in requests : NumDevices(req) = n : n \in {NumDevices(req) : req \in requests}}

\* start_recording called with a request of `requests` (`rejected`: the
\* requests tried while recording). A call made while recording returns before
\* it reads its arguments, the launch outcomes or the clock: one request per
\* number of devices is tried there.
StartRecordingWith(requests, rejected) ==
    /\ pc = "idle"
    /\ \E req \in (IF is_recording THEN rejected ELSE requests) :
          \E fails \in (IF is_recording THEN {{}} ELSE SUBSET DeviceKeys(req)) :
              \E t \in (IF is_recording THEN {now} ELSE now..MaxClock) :
                  start_recording(req, fails, t)
    /\ UNCHANGED others

RejectedRequests == RequestsByCount(Requests)

StartRecording == StartRecordingWith(Requests, RejectedRequests)

\* get_recording_status
GetRecordingStatus ==
    /\ pc = "idle"
    /\ last_call' = Call("get_recording_status", NoRequest, <<>>, None, FALSE)
    /\ ret' = Some([is_recording |-> is_recording,
                    active_inputs |-> Len(recording_processes),
                    inputs |-> [i \in 1..Len(recording_processes) |->
                                   [type |-> recording_processes[i].type,
                                    name |-> recording_processes[i].name,
                                    output |-> recording_processes[i].output]]])
    /\ UNCHANGED <<is_recording, recording_processes, procs, files, session_dirs, now,
                   pc, stop_idx, stop_result, hist, log>>
    /\ UNCHANGED others

\* ------------------------------------------------------------- stop_recording

\* recording = self.recording_processes[stop_idx]; process = recording['process']
Process == recording_processes[stop_idx].process

Record(p, events) == [hist EXCEPT ![p] = @ \o events]

Logged(p, entry) == [log EXCEPT ![p] = @ \cup {entry}]

\* Faulty variant of InnerCatches: the inner handler catches every exception.
InnerCatches_all(exc) == TRUE

\* except subprocess.TimeoutExpired: (around the quit byte and the first wait)
InnerCatches(exc) == exc = "TimeoutExpired"

\* Faulty variant of OuterCatches: the outer handler catches timeouts only.
OuterCatches_timeout_only(exc) == exc = "TimeoutExpired"

\* except Exception as e: (around the whole handling of one task)
OuterCatches(exc) == exc \in {"TimeoutExpired", "BrokenPipeError", "OSError"}

\* Where an exception raised by the quit byte or by the first wait goes.
RaiseInTry(exc) ==
    IF InnerCatches(exc) THEN "terminate"
    ELSE IF OuterCatches(exc) THEN "handler"
    ELSE "raised"

\* Faulty variant of LoopNext: the loop stops one task early.
LoopNext_off_by_one(i) == IF i + 1 < Len(recording_processes) THEN "quit" ELSE "clear"

\* The for loop: the task after position i, or the end of the loop.
LoopNext(i) == IF i < Len(recording_processes) THEN "quit" ELSE "clear"

\* End of the try body of task i (after the file check).
AfterBody(i) == LoopNext(i)

\* Faulty variant of AfterHandler: an exception abandons the remaining tasks.
AfterHandler_break(i) == "clear"

\* End of the except handler of task i.
AfterHandler(i) == LoopNext(i)

\* process.terminate(): a request the subprocess may or may not honour in time
Terminate(p) == procs

\* Faulty variant of Kill: the kill is never sent.
Kill_not_sent(p) == procs

\* process.kill(): the subprocess is killed and exits when the OS gets to it
Kill(p) == [procs EXCEPT ![p].killed = TRUE]

\* Faulty variant of WriteQuit: stdin is left open after the quit byte.
WriteQuit_left_open(p) == procs

\* process.stdin.write(b'q'); flush(); close()
WriteQuit(p) == [procs EXCEPT ![p].stdin_closed = TRUE]

\* A step of stop_recording moves to `target`; an exception no handler catches
\* ends the call.
GoTo(target) ==
    /\ pc' = IF target = "raised" THEN "idle" ELSE target
    /\ stop_result' = IF target = "raised" THEN "raised" ELSE stop_result

\* Faulty variant of NotRecording: the guard is missing.
NotRecording_never == FALSE

\* if not self.is_recording: (the guard of stop_recording)
NotRecording == ~is_recording

\* if not self.is_recording: return / else enter the for loop
stop_recording ==
    /\ pc = "idle"
    /\ last_call' = Call("stop_recording", NoRequest, <<>>, None, FALSE)
    /\ IF NotRecording
       THEN /\ stop_result' = "returned"
            /\ UNCHANGED <<pc, stop_idx>>
       ELSE /\ stop_result' = "running"
            /\ stop_idx' = 1
            /\ pc' = LoopNext(0)
    /\ UNCHANGED <<is_recording, recording_processes, procs, files, session_dirs, now,
                   ret, hist, log>>

StopRecordingCall == stop_recording /\ UNCHANGED others

\* if process.stdin and not process.stdin.closed: write(b'q'); flush(); close()
SendQuit ==
    /\ pc = "quit"
    /\ LET p == Process IN
         IF ~procs[p].stdin_closed
         THEN IF procs[p].pipe_broken
              THEN /\ hist' = Record(p, <<"qfail">>)
                   /\ GoTo(RaiseInTry("BrokenPipeError"))
                   /\ UNCHANGED procs
              ELSE /\ hist' = Record(p, <<"q">>)
                   /\ procs' = WriteQuit(p)
                   /\ GoTo("wait5")
         ELSE /\ GoTo("wait5")
              /\ UNCHANGED <<hist, procs>>
    /\ UNCHANGED <<is_recording, recording_processes, files, session_dirs, now,
                   stop_idx, ret, log, last_call>>
    /\ UNCHANGED others

\* process.wait(timeout=5)
Wait5 ==
    /\ pc = "wait5"
    /\ LET p == Process IN
         IF procs[p].state = "exited"
         THEN /\ hist' = Record(p, <<"exited">>)
              /\ GoTo("check")
         ELSE /\ hist' = Record(p, <<"timeout5">>)
              /\ GoTo(RaiseInTry("TimeoutExpired"))
    /\ UNCHANGED <<is_recording, recording_processes, procs, files, session_dirs, now,
                   stop_idx, ret, log, last_call>>
    /\ UNCHANGED others

\* logging.warning("Process didn't stop gracefully, terminating..."); process.terminate()
TerminateStep ==
    /\ pc = "terminate"
    /\ LET p == Process IN
         /\ hist' = Record(p, <<"terminate">>)
         /\ procs' = Terminate(p)
         /\ log' = Logged(p, "WARNING terminating")
    /\ GoTo("wait2")
    /\ UNCHANGED <<is_recording, recording_processes, files, session_dirs, now,
                   stop_idx, ret, last_call>>
    /\ UNCHANGED others

\* process.wait(timeout=2); on TimeoutExpired: process.kill()
Wait2 ==
    /\ pc = "wait2"
    /\ LET p == Process IN
         IF procs[p].state = "exited"
         THEN /\ hist' = Record(p, <<"exited">>)
              /\ GoTo("check")
              /\ UNCHANGED <<procs, log>>
         ELSE /\ hist' = Record(p, <<"timeout2", "kill">>)
              /\ procs' = Kill(p)
              /\ log' = Logged(p, "WARNING force killing")
              /\ GoTo("waitkill")
    /\ UNCHANGED <<is_recording, recording_processes, files, session_dirs, now,
                   stop_idx, ret, last_call>>
    /\ UNCHANGED others

\* process.wait() after process.kill(): blocks until the subprocess has exited
WaitKill ==
    /\ pc = "waitkill"
    /\ procs[Process].state = "exited"
    /\ hist' = Record(Process, <<"exited">>)
    /\ GoTo("check")
    /\ UNCHANGED <<is_recording, recording_processes, procs, files, session_dirs, now,
                   stop_idx, ret, log, last_call>>
    /\ UNCHANGED others

\* if os.path.exists(output): logging.info(size) else: logging.error(...)
FileCheckEntry(file) ==
    IF file # "missing"
    THEN IF file = "empty" THEN "INFO Saved 0 bytes" ELSE "INFO Saved n bytes"
    ELSE "ERROR Output file not created"

CheckFile ==
    /\ pc = "check"
    /\ LET p == Process IN
         /\ log' = Logged(p, FileCheckEntry(files[p]))
         /\ hist' = Record(p, <<"checked", "done">>)
    /\ GoTo(AfterBody(stop_idx))
    /\ stop_idx' = stop_idx + 1
    /\ UNCHANGED <<is_recording, recording_processes, procs, files, session_dirs, now,
                   ret, last_call>>
    /\ UNCHANGED others

\* except Exception as e: logging.error(...); process.terminate()
Handler ==
    /\ pc = "handler"
    /\ LET p == Process IN
         /\ log' = Logged(p, "ERROR Error stopping")
         /\ hist' = Record(p, <<"exc", "terminate">>)
         /\ procs' = Terminate(p)
    /\ GoTo("hwait2")
    /\ UNCHANGED <<is_recording, recording_processes, files, session_dirs, now,
                   stop_idx, ret, last_call>>
    /\ UNCHANGED others

\* process.wait(timeout=2) in the handler; except: process.kill()
HandlerWait2 ==
    /\ pc = "hwait2"
    /\ LET p == Process IN
         IF procs[p].state = "exited"
         THEN /\ hist' = Record(p, <<"exited", "done">>)
              /\ UNCHANGED procs
         ELSE /\ hist' = Record(p, <<"timeout2", "kill", "done">>)
              /\ procs' = Kill(p)
    /\ GoTo(AfterHandler(stop_idx))
    /\ stop_idx' = stop_idx + 1
    /\ UNCHANGED <<is_recording, recording_processes, files, session_dirs, now,
                   ret, log, last_call>>
    /\ UNCHANGED others

\* self.recording_processes.clear(); self.is_recording = False
ClearAndReturn ==
    /\ pc = "clear"
    /\ recording_processes' = <<>>
    /\ is_recording' = FALSE
    /\ pc' = "idle"
    /\ stop_result' = "returned"
    /\ UNCHANGED <<procs, files, session_dirs, now, stop_idx, ret, hist, log,
                   last_call>>
    /\ UNCHANGED others

\* ------------------------------------------------- the subprocesses (environment)

\* A running subprocess exits: it honours the quit byte or the terminate
\* request, or it fails on its own (device error). Its end of the pipe goes.
ProcessExits(p) ==
    /\ procs[p].state = "running"
    /\ ~procs[p].killed
    /\ procs' = [procs EXCEPT ![p].state = "exited", ![p].pipe_broken = TRUE]
    /\ UNCHANGED <<is_recording, recording_processes, files, session_dirs, now,
                   pc, stop_idx, ret, stop_result, hist, log, last_call>>
    /\ UNCHANGED others

\* A killed subprocess exits.
KilledProcessExits(p) ==
    /\ procs[p].state = "running"
    /\ procs[p].killed
    /\ procs' = [procs EXCEPT ![p].state = "exited", ![p].pipe_broken = TRUE]
    /\ UNCHANGED <<is_recording, recording_processes, files, session_dirs, now,
                   pc, stop_idx, ret, stop_result, hist, log, last_call>>
    /\ UNCHANGED others

\* A running subprocess closes its standard input: a later write to it raises.
ChildClosesStdin(p) ==
    /\ procs[p].state = "running"
    /\ ~procs[p].pipe_broken
    /\ procs' = [procs EXCEPT ![p].pipe_broken = TRUE]
    /\ UNCHANGED <<is_recording, recording_processes, files, session_dirs, now,
                   pc, stop_idx, ret, stop_result, hist, log, last_call>>
    /\ UNCHANGED others

\* A running subprocess creates its output file, then writes data to it.
ProcessWrites(p) ==
    /\ procs[p].state = "running"
    /\ files[p] # "data"
    /\ files' = [files EXCEPT ![p] = IF @ = "missing" THEN "empty" ELSE "data"]
    /\ UNCHANGED <<is_recording, recording_processes, procs, session_dirs, now,
                   pc, stop_idx, ret, stop_result, hist, log, last_call>>
    /\ UNCHANGED others

\* ----------------------------------------------------------- device enumeration

\* A line of the media tool's diagnostic stream: the type marker in it, and the
\* text between its first pair of double quotes (None: the line has no double
\* quote; an empty text: the regular expression "([^"]+)" finds no match).
Lines ==
    {[marker |-> "(video)", quoted |-> Some(USB_Camera)],
     [marker |-> "(audio)", quoted |-> Some(Default_Mic)],
     [marker |-> "(video)", quoted |-> Some(Alt_Name)],
     [marker |-> "(audio)", quoted |-> Some(<<>>)],
     [marker |-> "(video)", quoted |-> None],
     [marker |-> "none", quoted |-> Some(USB_Camera)]}

\* What subprocess.run does: it raises, or it returns the diagnostic stream.
ToolOutcomes ==
    [raises : {"FileNotFoundError", "PermissionError", "TypeError"}, stderr : {<<>>}]
        \cup [raises : {"none"}, stderr : SeqsUpTo(Lines, MaxLines)]

\* str.startswith
StartsWith(s, prefix) == Len(s) >= Len(prefix) /\ SubSeq(s, 1, Len(prefix)) = prefix

\* The for loop over the lines: the quoted name of every line that carries the
\* marker, alternative names left out.
RECURSIVE ParseDevices(_, _)
ParseDevices(lines, marker) ==
    IF lines = <<>> THEN <<>>
    ELSE LET line == Head(lines)
             devices == ParseDevices(Tail(lines), marker)
         IN IF /\ line.marker = marker
               /\ line.quoted # None
               /\ line.quoted[1] # <<>>
               /\ ~StartsWith(line.quoted[1], <<"@", "d", "e", "v", "i", "c", "e", "_">>)
            THEN <<line.quoted[1]>> \o devices
            ELSE devices

\* Faulty variant of EnumCatches: only a missing tool is caught.
EnumCatches_missing_tool(exc) == exc = "FileNotFoundError"

\* except Exception as e: (in list_video_devices and list_audio_devices)
EnumCatches(exc) == exc \in {"FileNotFoundError", "PermissionError", "TypeError"}

\* list_video_devices / list_audio_devices
list_devices(op, marker, outcome) ==
    /\ pc = "idle"
    /\ last_call' = Call(op, NoRequest, <<>>, Some(outcome),
                         outcome.raises # "none" /\ ~EnumCatches(outcome.raises))
    /\ ret' = IF outcome.raises = "none" THEN Some(ParseDevices(outcome.stderr, marker))
              ELSE IF EnumCatches(outcome.raises) THEN Some(<<>>)
              ELSE None
    /\ UNCHANGED <<is_recording, recording_processes, procs, files, session_dirs, now,
                   pc, stop_idx, stop_result, hist, log>>
    /\ UNCHANGED others

ListVideoDevices ==
    \E outcome \in ToolOutcomes : list_devices("list_video_devices", "(video)", outcome)

ListAudioDevices ==
    \E outcome \in ToolOutcomes : list_devices("list_audio_devices", "(audio)", outcome)

\* A monitor as the OS reports it: its rectangle and its flags.
OsMonitors ==
    {[left |-> 0, top |-> 0, right |-> 1920, bottom |-> 1080, flags |-> 1],
     [left |-> 1920, top |-> 0, right |-> 3840, bottom |-> 1080, flags |-> 0],
     [left |-> -1280, top |-> 0, right |-> 0, bottom |-> 1024, flags |-> 2]}

\* What the platform does in list_monitors: the import of win32api and its
\* EnumDisplayMonitors succeed or raise; the import of ctypes.windll and its
\* EnumDisplayMonitors succeed or raise; the monitors the callback is called for.
MonitorOutcomes ==
    [win32 : {"ImportError", "error"}, ctypes : {"ok"}, found : {<<>>}]
        \cup [win32 : {"ok"}, ctypes : {"ImportError", "OSError"}, found : {<<>>}]
        \cup [win32 : {"ok"}, ctypes : {"ok"}, found : SeqsUpTo(OsMonitors, MaxMonitors)]

\* f'Monitor {len(monitors) + 1}'
MonitorName(monitors) == <<"M", "o", "n", " ">> \o Str(Len(monitors) + 1)

\* callback(hMonitor, ...), called by the OS once for every monitor
RECURSIVE Callbacks(_, _)
Callbacks(found, monitors) ==
    IF found = <<>> THEN monitors
    ELSE LET info == Head(found)
         IN Callbacks(Tail(found),
                      Append(monitors,
                             [name |-> MonitorName(monitors),
                              x |-> info.left,
                              y |-> info.top,
                              width |-> info.right - info.left,
                              height |-> info.bottom - info.top,
                              is_primary |-> info.flags % 2]))

DefaultMonitor ==
    [name |-> Primary_Monitor, x |-> 0, y |-> 0, width |-> 1920, height |-> 1080,
     is_primary |-> TRUE]

\* Faulty variant of MonitorsOrDefault: the list is returned as it was found.
MonitorsOrDefault_as_found(monitors) == monitors

\* return monitors if monitors else [{'name': 'Primary Monitor', ...}]
MonitorsOrDefault(monitors) == IF monitors # <<>> THEN monitors ELSE <<DefaultMonitor>>

\* except ImportError: / except Exception as e: (in list_monitors)
MonitorsCatches(exc) == exc \in {"ImportError", "error", "OSError"}

\* list_monitors. EnumDisplayMonitors of win32api is called without a callback,
\* so `monitors` is empty after it and the ctypes enumeration always runs.
list_monitors(outcome) ==
    LET exc == IF outcome.win32 # "ok" THEN outcome.win32
               ELSE IF outcome.ctypes # "ok" THEN outcome.ctypes
               ELSE "none"
        monitors == Callbacks(outcome.found, <<>>)
    IN /\ pc = "idle"
       /\ last_call' = Call("list_monitors", NoRequest, <<>>, Some(outcome),
                            exc # "none" /\ ~MonitorsCatches(exc))
       /\ ret' = IF exc = "none" THEN Some(MonitorsOrDefault(monitors))
                 ELSE IF MonitorsCatches(exc) THEN Some(<<DefaultMonitor>>)
                 ELSE None
       /\ UNCHANGED <<is_recording, recording_processes, procs, files, session_dirs, now,
                      pc, stop_idx, stop_result, hist, log>>
       /\ UNCHANGED others

ListMonitors == \E outcome \in MonitorOutcomes : list_monitors(outcome)

\* ------------------------------------------- start_recording called by threads

\* Two threads that each call start_recording once on the same recorder. The
\* recorder has no lock: a thread can be preempted between the guard
\* (if self.is_recording) and the body. The body is one step: the other thread
\* reads nothing but is_recording, which the body assigns last, and
\* list.append is atomic.
Threads == {"T1", "T2"}

NoCallers == [th \in Threads |-> [pc |-> "ready", ret |-> None]]

\* What a thread asks for: one device.
ThreadRequests == {req \in Requests : NumDevices(req) = 1}

\* if self.is_recording: logging.warning("Already recording!"); return None
CheckGuard(th) ==
    /\ callers[th].pc = "ready"
    /\ pc = "idle"
    /\ IF AlreadyRecording
       THEN /\ callers' = [callers EXCEPT ![th] = [pc |-> "returned", ret |-> None]]
            /\ last_call' = Call("start_recording", NoRequest, <<>>, None, FALSE)
            /\ ret' = None
       ELSE /\ callers' = [callers EXCEPT ![th].pc = "passed"]
            /\ UNCHANGED <<last_call, ret>>
    /\ UNCHANGED <<is_recording, recording_processes, procs, files, session_dirs, now,
                   pc, stop_idx, stop_result, hist, log>>
    /\ UNCHANGED <<app, settings, wizard>>

\* The rest of start_recording, run by a thread that got past the guard.
RunSession(th) ==
    /\ callers[th].pc = "passed"
    /\ pc = "idle"
    /\ \E req \in ThreadRequests :
          \E fails \in SUBSET DeviceKeys(req) :
              \E t \in now..MaxClock :
                  /\ start_session(req, fails, t)
                  /\ callers' = [callers EXCEPT ![th] = [pc |-> "returned", ret |-> ret']]
    /\ UNCHANGED <<app, settings, wizard>>

\* stop_recording, called when no thread is inside start_recording.
StopAfterCalls ==
    /\ \A th \in Threads : callers[th].pc # "passed"
    /\ StopRecordingCall

\* ------------------------------------------------- the configuration manager

\* Keys are sequences of characters, so that str.split is computed.
version == <<"v", "e", "r", "s", "i", "o", "n">>
installation == <<"i", "n", "s", "t", "a", "l", "l", "a", "t", "i", "o", "n">>
output_folder == <<"o", "u", "t", "p", "u", "t", "_", "f", "o", "l", "d", "e", "r">>
watermark == <<"w", "a", "t", "e", "r", "m", "a", "r", "k">>
enabled == <<"e", "n", "a", "b", "l", "e", "d">>
\* A section DEFAULT_CONFIG does not have.
editor == <<"e", "d", "i", "t", "o", "r">>

\* A value held in a dict: a scalar (a string or a truth value, written as
\* text), or a reference to a dict object of the heap; NoValue is Python's None.
Scalar(text) == [kind |-> "scalar", s |-> text, ref |-> 0]

DictRef(id) == [kind |-> "dict", s |-> "", ref |-> id]

NoValue == [kind |-> "none", s |-> "", ref |-> 0]

IsDict(value) == value.kind = "dict"

\* {}
EmptyDict == [key \in {} |-> NoValue]

\* The object the class attribute DEFAULT_CONFIG names.
DEFAULT_CONFIG == 1

\* The dict objects made when the class is defined: DEFAULT_CONFIG and its
\* nested section dicts (two of the six sections, one key each).
ClassHeap ==
    (DEFAULT_CONFIG :> (version :> Scalar("1.0")
                         @@ installation :> DictRef(2)
                         @@ watermark :> DictRef(3)))
        @@ (2 :> (output_folder :> Scalar("")))
        @@ (3 :> (enabled :> Scalar("False")))

\* The id of a new object.
NewId(h) == CHOOSE id \in 1..(Cardinality(DOMAIN h) + 1) : id \notin DOMAIN h

\* A new dict object with the given items.
New(h, items) == [heap |-> (NewId(h) :> items) @@ h, ref |-> NewId(h)]

\* dict.copy(): a new dict with the same items; nested dicts are shared.
Copy(h, id) == New(h, h[id])

\* Faulty variant of SetItem: the other items of the dict are lost.
SetItem_alone(h, id, key, value) == [h EXCEPT ![id] = (key :> value)]

\* d[key] = value
SetItem(h, id, key, value) == [h EXCEPT ![id] = (key :> value) @@ @]

\* The objects a dict refers to, and all objects reachable from some roots.
Refs(h, id) == {h[id][key].ref : key \in {k \in DOMAIN h[id] : IsDict(h[id][k])}}

RECURSIVE Reachable(_, _)
Reachable(h, ids) ==
    LET more == ids \cup UNION {Refs(h, id) : id \in ids}
    IN IF more = ids THEN ids ELSE Reachable(h, more)

\* Objects nothing refers to any more are freed.
Collect(h, roots) == [id \in Reachable(h, roots) |-> h[id]]

\* str.split('.')
RECURSIVE Split(_)
Split(text) ==
    IF \A i \in 1..Len(text) : text[i] # "."
    THEN <<text>>
    ELSE LET dot == CHOOSE i \in 1..Len(text) :
                        text[i] = "." /\ \A j \in 1..(i - 1) : text[j] # "."
         IN <<SubSeq(text, 1, dot - 1)>> \o Split(SubSeq(text, dot + 1, Len(text)))

\* A key path in dot notation.
RECURSIVE KeyPath(_)
KeyPath(keys) ==
    IF Len(keys) = 1 THEN keys[1] ELSE keys[1] \o <<".">> \o KeyPath(Tail(keys))

\* The key paths set and get are called with.
KeyLists ==
    {<<version>>, <<version, enabled>>, <<watermark>>, <<watermark, enabled>>,
     <<installation, output_folder>>, <<editor, enabled>>}

KeyPaths == {KeyPath(keys) : keys \in KeyLists}

\* The file on disk: absent, unreadable as JSON, or JSON text (its tree).
NoFile == [state |-> "absent", tree |-> EmptyDict]

CorruptFile == [state |-> "corrupt", tree |-> EmptyDict]

\* json.dump of a dict: the tree of its items
RECURSIVE Dump(_, _)
Dump(h, id) ==
    [key \in DOMAIN h[id] |->
        IF IsDict(h[id][key])
        THEN [kind |-> "dict", s |-> "", items |-> Dump(h, h[id][key].ref)]
        ELSE [kind |-> "scalar", s |-> h[id][key].s, items |-> EmptyDict]]

\* json.load of a tree: new dict objects
RECURSIVE LoadItems(_, _, _, _)
LoadItems(h, id, tree, keys) ==
    IF keys = {} THEN [heap |-> h, ref |-> id]
    ELSE LET key == CHOOSE k \in keys : TRUE
         IN IF tree[key].kind = "dict"
            THEN LET made == New(h, EmptyDict)
                     sub == LoadItems(made.heap, made.ref, tree[key].items,
                                      DOMAIN tree[key].items)
                 IN LoadItems(SetItem(sub.heap, id, key, DictRef(sub.ref)), id, tree,
                              keys \ {key})
            ELSE LoadItems(SetItem(h, id, key, Scalar(tree[key].s)), id, tree, keys \ {key})

Load(h, tree) ==
    LET made == New(h, EmptyDict)
    IN LoadItems(made.heap, made.ref, tree, DOMAIN tree)

\* save_config: open(self.config_path, 'w') and json.dump; `outcome` is what
\* the file system does. An exception is caught inside save_config.
SaveOutcomes == {"saved", "open fails"}

save_config(h, id, outcome) ==
    IF outcome = "saved" THEN [state |-> "json", tree |-> Dump(h, id)]
    ELSE config_file

\* merge_dict(base, update) of merge_with_defaults
RECURSIVE MergeItems(_, _, _, _)
MergeItems(h, result, update, keys) ==
    IF keys = {} THEN [heap |-> h, ref |-> result]
    ELSE LET key == CHOOSE k \in keys : TRUE
             value == h[update][key]
         IN IF key \in DOMAIN h[result] /\ IsDict(h[result][key]) /\ IsDict(value)
            THEN LET copied == Copy(h, h[result][key].ref)
                     merged == MergeItems(copied.heap, copied.ref, value.ref,
                                          DOMAIN h[value.ref])
                 IN MergeItems(SetItem(merged.heap, result, key, DictRef(merged.ref)),
                               result, update, keys \ {key})
            ELSE MergeItems(SetItem(h, result, key, value), result, update, keys \ {key})

merge_dict(h, base, update) ==
    LET copied == Copy(h, base)
    IN MergeItems(copied.heap, copied.ref, update, DOMAIN h[update])

\* merge_with_defaults: merge_dict(self.DEFAULT_CONFIG.copy(), config)
merge_with_defaults(h, loaded) ==
    LET copied == Copy(h, DEFAULT_CONFIG)
    IN merge_dict(copied.heap, copied.ref, loaded)

\* self.DEFAULT_CONFIG.copy()
DefaultsCopy(h) == Copy(h, DEFAULT_CONFIG)

\* load_config: the heap, the dict it returns and the file it leaves
load_config(h, file, outcome) ==
    IF file.state = "json"
    THEN LET loaded == Load(h, file.tree)
             merged == merge_with_defaults(loaded.heap, loaded.ref)
         IN [heap |-> merged.heap, ref |-> merged.ref, file |-> file]
    ELSE IF file.state = "corrupt"
    THEN LET copied == DefaultsCopy(h)
         IN [heap |-> copied.heap, ref |-> copied.ref, file |-> file]
    ELSE LET copied == DefaultsCopy(h)
             section == copied.heap[copied.ref][installation].ref
             folder == SetItem(copied.heap, section, output_folder, Scalar("Downloads"))
         IN [heap |-> folder, ref |-> copied.ref,
             file |-> save_config(folder, copied.ref, outcome)]

\* How many times a configuration manager is made or written to.
MaxConfigCalls == 4

CountConfigCall ==
    /\ config_calls < MaxConfigCalls
    /\ config_calls' = config_calls + 1

\* A call on the configuration manager as last_call remembers it.
ConfigCall(op, outcome, raised) ==
    /\ last_call' = Call(op, NoRequest, <<>>, Some(outcome), raised)
    /\ UNCHANGED <<session, callers, app, wizard>>

\* ConfigManager(config_path): self.config = self.load_config()
NewConfigManager ==
    /\ CountConfigCall
    /\ \E outcome \in (IF config_file.state = "absent" THEN SaveOutcomes ELSE {"saved"}) :
          \E loaded \in {load_config(heap, config_file, outcome)} :
              /\ ConfigCall("ConfigManager", config_file.state, FALSE)
              /\ config' = loaded.ref
              /\ heap' = Collect(loaded.heap, {DEFAULT_CONFIG, loaded.ref})
              /\ config_file' = loaded.file
              /\ ret' = None

\* The loop of set over keys[:-1] and the assignment of the last key. A value
\* on the way that is not a dict makes the assignment raise TypeError, before
\* anything was changed.
RECURSIVE SetPath(_, _, _, _)
SetPath(h, id, keys, value) ==
    IF Len(keys) = 1 THEN [heap |-> SetItem(h, id, keys[1], value), raised |-> FALSE]
    ELSE LET key == Head(keys)
         IN IF key \notin DOMAIN h[id]
            THEN LET made == New(h, EmptyDict)
                 IN SetPath(SetItem(made.heap, id, key, DictRef(made.ref)), made.ref,
                            Tail(keys), value)
            ELSE IF IsDict(h[id][key])
            THEN SetPath(h, h[id][key].ref, Tail(keys), value)
            ELSE [heap |-> h, raised |-> TRUE]

\* The values set is called with: a string, or a new empty dict.
SetValues == {"True", "{}"}

ValueGiven(h, v) ==
    IF v = "{}" THEN [heap |-> New(h, EmptyDict).heap, value |-> DictRef(New(h, EmptyDict).ref)]
    ELSE [heap |-> h, value |-> Scalar(v)]

\* What set(key_path, value) does to the dicts and to the file.
SetResult(key_path, v, outcome) ==
    LET given == ValueGiven(heap, v)
        done == SetPath(given.heap, config, Split(key_path), given.value)
    IN [value |-> given.value,
        raised |-> done.raised,
        heap |-> Collect(done.heap, {DEFAULT_CONFIG, config}),
        file |-> IF done.raised THEN config_file
                 ELSE save_config(done.heap, config, outcome)]

\* set(key_path, value)
set(key_path, v, outcome) ==
    \E done \in {SetResult(key_path, v, outcome)} :
        /\ ConfigCall("set", [key_path |-> key_path, value |-> done.value], done.raised)
        /\ heap' = done.heap
        /\ config_file' = done.file
        /\ ret' = None
        /\ UNCHANGED config

SetValue ==
    /\ config # 0
    /\ CountConfigCall
    /\ \E key_path \in KeyPaths, v \in SetValues, outcome \in SaveOutcomes :
          set(key_path, v, outcome)

\* The loop of get
RECURSIVE GetPath(_, _, _, _)
GetPath(h, value, keys, default) ==
    IF keys = <<>> THEN value
    ELSE IF IsDict(value) /\ Head(keys) \in DOMAIN h[value.ref]
    THEN GetPath(h, h[value.ref][Head(keys)], Tail(keys), default)
    ELSE default

\* get(key_path, default) on the manager whose dict is `id`
get(h, id, key_path, default) == GetPath(h, DictRef(id), Split(key_path), default)

GetValue ==
    /\ config # 0
    /\ \E key_path \in KeyPaths :
          /\ ConfigCall("get", [key_path |-> key_path, value |-> NoValue], FALSE)
          /\ ret' = Some(get(heap, config, key_path, NoValue))
    /\ UNCHANGED settings

\* The configuration file is deleted, or the next manager is given a path at
\* which there is no file.
RemoveConfigFile ==
    /\ config_file.state # "absent"
    /\ config_file' = NoFile
    /\ UNCHANGED <<heap, config, config_calls>>
    /\ UNCHANGED <<recorder, callers, app, wizard>>

\* The configuration file is edited by hand and is no JSON text any more.
DamageConfigFile ==
    /\ config_file.state = "json"
    /\ config_file' = CorruptFile
    /\ UNCHANGED <<heap, config, config_calls>>
    /\ UNCHANGED <<recorder, callers, app, wizard>>

\* ------------------------------------------------------------ the editor wizard

\* The pages init_ui adds to the stacked widget, in order.
Pages == <<"page1", "page2", "page3", "page4", "page5">>

\* QStackedWidget.addWidget: the first widget added becomes the current one.
AddWidget(stack, page) ==
    [pages |-> Append(stack.pages, page),
     current |-> IF stack.pages = <<>> THEN 0 ELSE stack.current]

RECURSIVE AddWidgets(_, _)
AddWidgets(stack, pages) ==
    IF pages = <<>> THEN stack
    ELSE AddWidgets(AddWidget(stack, Head(pages)), Tail(pages))

\* self.stacked_widget after init_ui
StackedWidget == AddWidgets([pages |-> <<>>, current |-> -1], Pages)

\* QStackedWidget.setCurrentIndex: an index that names no page is ignored.
SetCurrentIndex(index) ==
    IF index \in 0..(Len(StackedWidget.pages) - 1) THEN index ELSE current_index

\* What the user can have set in the pages: the two check boxes, the videos
\* picked in the two combo boxes of page 2, whether the watermark path names
\* an existing file, and whether the session has a source video.
Videos == {"screen", "camera"}

WidgetStates ==
    [overlay_enable : BOOLEAN,
     bg_video : {None} \cup {Some(v) : v \in {"screen"}},
     overlay_video : {None} \cup {Some(v) : v \in Videos},
     watermark_enable : BOOLEAN,
     watermark_exists : BOOLEAN,
     source_videos : BOOLEAN]

\* WizardEditor.__init__ with no session folder: overlay_enable is checked.
NewWizard ==
    /\ current_index = StackedWidget.current
    /\ current_project = [overlay_video |-> None, watermarked_video |-> None]
    /\ widgets = [overlay_enable |-> TRUE, bg_video |-> None, overlay_video |-> None,
                  watermark_enable |-> FALSE, watermark_exists |-> FALSE,
                  source_videos |-> FALSE]
    /\ processor = "none"

\* A call of the wizard as last_call remembers it: `outcome` is the answer to
\* the dialog, or whether the processing succeeded.
WizardCall(op, outcome) ==
    /\ last_call' = Call(op, NoRequest, <<>>, Some(outcome), FALSE)
    /\ UNCHANGED <<session, ret, callers, app, settings>>

\* The user changes the settings of the pages (the window is disabled while a
\* processor runs).
UserEdits ==
    /\ processor = "none"
    /\ \E w \in WidgetStates : widgets' = w
    /\ widgets' # widgets
    /\ UNCHANGED <<current_index, current_project, processor>>
    /\ UNCHANGED <<recorder, callers, app, settings>>

\* apply_overlay, called with the overlay enabled and both videos picked: the
\* processor is started unless the two videos are the same.
apply_overlay ==
    IF widgets.bg_video = widgets.overlay_video THEN "none" ELSE "overlay"

\* The video apply_watermark works on (merging is not part of the model:
\* merged_video stays None).
InputVideo ==
    IF current_project.overlay_video # None THEN current_project.overlay_video
    ELSE IF widgets.source_videos THEN Some("source")
    ELSE None

\* apply_watermark
apply_watermark ==
    IF ~widgets.watermark_enable
    THEN [project |-> IF current_project.overlay_video # None
                      THEN [current_project EXCEPT
                                !.watermarked_video = current_project.overlay_video]
                      ELSE current_project,
          processor |-> "none"]
    ELSE IF ~widgets.watermark_exists \/ InputVideo = None
    THEN [project |-> current_project, processor |-> "none"]
    ELSE [project |-> current_project, processor |-> "watermark"]

\* if current < 4: self.stacked_widget.setCurrentIndex(current + 1)
NextIndex(current) == IF current < 4 THEN SetCurrentIndex(current + 1) ELSE current

\* Faulty variant of PreviousIndex: the first page wraps to the last.
PreviousIndex_wraps(current) == (current + 4) % 5

\* if current > 0: self.stacked_widget.setCurrentIndex(current - 1)
PreviousIndex(current) == IF current > 0 THEN SetCurrentIndex(current - 1) ELSE current

\* next_step; `reply` is the answer to the question it may ask
NextStep(reply) ==
    LET current == current_index
        ask_overlay == /\ current = 1
                       /\ widgets.overlay_enable
                       /\ widgets.bg_video # None
                       /\ widgets.overlay_video # None
                       /\ current_project.overlay_video = None
        ask_watermark == /\ current = 2
                         /\ widgets.watermark_enable
                         /\ widgets.watermark_exists
                         /\ current_project.watermarked_video = None
    IN /\ WizardCall("next_step", reply)
       /\ IF ask_overlay /\ reply = "Yes"
          THEN /\ processor' = apply_overlay
               /\ UNCHANGED <<current_index, current_project, widgets>>
          ELSE IF ask_watermark /\ reply = "Yes"
          THEN /\ processor' = apply_watermark.processor
               /\ current_project' = apply_watermark.project
               /\ UNCHANGED <<current_index, widgets>>
          ELSE IF (ask_overlay \/ ask_watermark) /\ reply = "Cancel"
          THEN UNCHANGED wizard
          ELSE /\ current_project' =
                     IF current = 1 /\ ~widgets.overlay_enable /\ widgets.bg_video # None
                        /\ current_project.overlay_video = None
                     THEN [current_project EXCEPT !.overlay_video = widgets.bg_video]
                     ELSE IF current = 2 /\ ~widgets.watermark_enable
                             /\ current_project.overlay_video # None
                             /\ current_project.watermarked_video = None
                     THEN [current_project EXCEPT
                               !.watermarked_video = current_project.overlay_video]
                     ELSE current_project
               /\ current_index' = NextIndex(current)
               /\ UNCHANGED <<widgets, processor>>

\* previous_step
PreviousStep ==
    /\ WizardCall("previous_step", "none")
    /\ current_index' = PreviousIndex(current_index)
    /\ UNCHANGED <<current_project, widgets, processor>>

\* The button 'Apply Watermark' of page 3
ApplyWatermark ==
    /\ current_index = 2
    /\ processor = "none"
    /\ WizardCall("apply_watermark", "none")
    /\ processor' = apply_watermark.processor
    /\ current_project' = apply_watermark.project
    /\ UNCHANGED <<current_index, widgets>>

\* overlay_complete(success, result): the signal of the overlay processor
OverlayComplete(success) ==
    /\ processor = "overlay"
    /\ WizardCall("overlay_complete", IF success THEN "success" ELSE "failure")
    /\ processor' = "none"
    /\ IF success
       THEN /\ current_project' = [current_project EXCEPT !.overlay_video = Some("overlay")]
            /\ current_index' = SetCurrentIndex(2)
       ELSE UNCHANGED <<current_index, current_project>>
    /\ UNCHANGED widgets

\* watermark_complete(success, result): the signal of the watermark processor
WatermarkComplete(success) ==
    /\ processor = "watermark"
    /\ WizardCall("watermark_complete", IF success THEN "success" ELSE "failure")
    /\ processor' = "none"
    /\ IF success
       THEN /\ current_project' =
                   [current_project EXCEPT !.watermarked_video = Some("watermarked")]
            /\ current_index' = SetCurrentIndex(3)
       ELSE UNCHANGED <<current_index, current_project>>
    /\ UNCHANGED widgets

NextStepCall == \E reply \in {"Yes", "No", "Cancel"} : NextStep(reply)

\* ------------------------------------------------------- the main window

\* setEnabled of the three buttons
Buttons(start, stop, refresh) ==
    [start_btn |-> start, stop_btn |-> stop, refresh_btn |-> refresh]

\* The folders the folder dialog can return; "" when it is cancelled.
Folders == {"Downloads", "Videos"}

\* 'installation.output_folder'
OutputFolderKey == KeyPath(<<installation, output_folder>>)

\* No main window was made.
NoWindow ==
    /\ buttons = None
    /\ handler = "none"
    /\ output_dir = ""
    /\ current_session = None

\* self.recorder = MultiInputRecorder(self.output_folder): the window holds a
\* new recorder; the subprocesses, the files and the logs are what they were.
MultiInputRecorder ==
    /\ is_recording' = FALSE
    /\ recording_processes' = <<>>
    /\ UNCHANGED <<procs, files, session_dirs, now, pc, stop_idx, stop_result, hist, log>>

\* get_output_folder on a manager just loaded: the folder of the
\* configuration, or Downloads written with set when there is none.
get_output_folder(loaded, outcome) ==
    LET folder == get(loaded.heap, loaded.ref, OutputFolderKey, NoValue)
        done == SetPath(loaded.heap, loaded.ref, Split(OutputFolderKey), Scalar("Downloads"))
    IN IF folder.kind = "scalar" /\ folder.s # ""
       THEN [heap |-> loaded.heap, file |-> loaded.file, folder |-> folder.s]
       ELSE [heap |-> done.heap,
             file |-> IF done.raised \/ outcome # "saved" THEN loaded.file
                      ELSE [state |-> "json", tree |-> Dump(done.heap, loaded.ref)],
             folder |-> "Downloads"]

\* HallmarkRecordApp(): the configuration manager, the output folder, the
\* recorder, and the buttons as init_ui leaves them.
HallmarkRecordApp ==
    /\ buttons = None
    /\ \E outcome \in SaveOutcomes :
          \E loaded \in {load_config(heap, config_file, outcome)} :
              \E made \in {get_output_folder(loaded, outcome)} :
                  /\ config' = loaded.ref
                  /\ heap' = Collect(made.heap, {DEFAULT_CONFIG, loaded.ref})
                  /\ config_file' = made.file
                  /\ output_dir' = made.folder
    /\ MultiInputRecorder
    /\ current_session' = None
    /\ buttons' = Some(Buttons(TRUE, FALSE, TRUE))
    /\ last_call' = Call("HallmarkRecordApp", NoRequest, <<>>, None, FALSE)
    /\ UNCHANGED <<ret, handler, config_calls, callers, wizard>>

\* What the handlers pass to the recorder: `x if x else None` of each selection.
GuiRequests ==
    {req \in Requests : req.cameras # Some(<<>>) /\ req.microphones # Some(<<>>)
                            /\ req.monitors # Some(<<>>)}

\* HallmarkRecordApp.start_recording (the start button).
AppStartRecording ==
    /\ buttons # None
    /\ handler = "none"
    /\ buttons[1].start_btn
    /\ \E req \in GuiRequests :
          IF NumDevices(req) = 0
          THEN UNCHANGED vars
          ELSE /\ \E fails \in SUBSET DeviceKeys(req), t \in now..MaxClock :
                     start_recording(req, fails, t)
               /\ current_session' = IF last_call'.raised THEN current_session ELSE ret'
               /\ buttons' = IF last_call'.raised \/ ret' = None THEN buttons
                             ELSE Some(Buttons(FALSE, TRUE, FALSE))
               /\ UNCHANGED <<handler, output_dir, callers, settings, wizard>>

\* HallmarkRecordApp.stop_recording (the stop button), up to the call of the
\* recorder's stop_recording, which then runs on the GUI thread.
AppStopRecording ==
    /\ buttons # None
    /\ handler = "none"
    /\ buttons[1].stop_btn
    /\ stop_recording
    /\ handler' = "stop_recording"
    /\ UNCHANGED <<buttons, output_dir, current_session, callers, settings, wizard>>

\* HallmarkRecordApp.stop_recording after the recorder's stop_recording returned.
AppStopReturns ==
    /\ handler = "stop_recording"
    /\ pc = "idle"
    /\ handler' = "none"
    /\ buttons' = IF stop_result = "raised" THEN buttons
                  ELSE Some(Buttons(TRUE, FALSE, TRUE))
    /\ UNCHANGED <<recorder, output_dir, current_session, callers, settings, wizard>>

\* HallmarkRecordApp.select_output_folder (the browse button, never disabled).
AppSelectOutputFolder ==
    /\ buttons # None
    /\ handler = "none"
    /\ \E folder \in Folders \cup {""} :
          IF folder = ""
          THEN UNCHANGED vars
          ELSE \E outcome \in SaveOutcomes :
                 \E done \in {SetResult(OutputFolderKey, folder, outcome)} :
                     /\ output_dir' = folder
                     /\ MultiInputRecorder
                     /\ heap' = done.heap
                     /\ config_file' = done.file
                     /\ last_call' = Call("set", NoRequest, <<>>,
                                          Some([key_path |-> OutputFolderKey,
                                                value |-> done.value]), done.raised)
                     /\ ret' = None
                     /\ UNCHANGED <<config, config_calls, buttons, handler,
                                    current_session, callers, wizard>>

\* ------------------------------------------------------------ specifications

StopRecordingStep ==
    \/ SendQuit
    \/ Wait5
    \/ TerminateStep
    \/ Wait2
    \/ WaitKill
    \/ CheckFile
    \/ Handler
    \/ HandlerWait2
    \/ ClearAndReturn

Environment ==
    \E p \in Pids :
        \/ ProcessExits(p)
        \/ KilledProcessExits(p)
        \/ ChildClosesStdin(p)
        \/ ProcessWrites(p)

Init ==
    /\ NewRecorder
    /\ callers = NoCallers
    /\ NoWindow
    /\ heap = ClassHeap
    /\ config = 0
    /\ config_file = NoFile
    /\ config_calls = 0
    /\ NewWizard

Next ==
    \/ StartRecording
    \/ StopRecordingCall
    \/ StopRecordingStep
    \/ Environment

Spec == Init /\ [][Next]_vars

\* stop_recording runs on its caller's thread and keeps running; the OS ends
\* every killed process.
FairSpec ==
    /\ Spec
    /\ WF_vars(StopRecordingStep)
    /\ \A p \in Pids : WF_vars(KilledProcessExits(p))

\* Sessions with longer device lists; the subprocesses only exit.
RejectedLaunchRequests == RequestsByCount(LaunchRequests)

StartSession == StartRecordingWith(LaunchRequests, RejectedLaunchRequests)

ProcessEnds ==
    \E p \in Pids :
        \/ ProcessExits(p)
        \/ KilledProcessExits(p)

LaunchNext ==
    \/ StartSession
    \/ GetRecordingStatus
    \/ StopRecordingCall
    \/ StopRecordingStep
    \/ ProcessEnds

LaunchSpec == Init /\ [][LaunchNext]_vars

\* The device queries, before and during a session that records one monitor.
RejectedMonitorRequests == RequestsByCount(MonitorRequests)

StartMonitorSession == StartRecordingWith(MonitorRequests, RejectedMonitorRequests)

DeviceNext ==
    \/ ListVideoDevices
    \/ ListAudioDevices
    \/ ListMonitors
    \/ StartMonitorSession
    \/ GetRecordingStatus

DeviceSpec == Init /\ [][DeviceNext]_vars

\* The editor wizard: its navigation calls in any order, also while a processor
\* runs, as a caller of the methods can make them.
WizardNext ==
    \/ UserEdits
    \/ NextStepCall
    \/ PreviousStep
    \/ ApplyWatermark
    \/ \E success \in BOOLEAN : OverlayComplete(success)
    \/ \E success \in BOOLEAN : WatermarkComplete(success)

WizardSpec == Init /\ [][WizardNext]_vars

\* Configuration managers are made, read and written; the file comes and goes.
ConfigNext ==
    \/ NewConfigManager
    \/ SetValue
    \/ GetValue
    \/ RemoveConfigFile
    \/ DamageConfigFile

ConfigSpec == Init /\ [][ConfigNext]_vars

\* The main window: its handlers run one at a time on the GUI thread; the
\* subprocesses only exit.
AppNext ==
    \/ HallmarkRecordApp
    \/ AppStartRecording
    \/ AppStopRecording
    \/ StopRecordingStep
    \/ AppStopReturns
    \/ AppSelectOutputFolder
    \/ ProcessEnds

AppSpec == Init /\ [][AppNext]_vars

ThreadsNext ==
    \/ \E th \in Threads : CheckGuard(th)
    \/ \E th \in Threads : RunSession(th)
    \/ StopAfterCalls
    \/ StopRecordingStep
    \/ ProcessEnds

ThreadsSpec == Init /\ [][ThreadsNext]_vars

\* ===================================================================== claims

Events(p) == {hist[p][k] : k \in 1..Len(hist[p])}

\* Event e is in the history of p before position k.
Before(p, e, k) == \E j \in 1..(k - 1) : hist[p][j] = e

StopActions == {"q", "terminate", "kill"}

ErrorEntries == {"ERROR Output file not created", "ERROR Error stopping"}

TaskPids == PidsOf(recording_processes)

\* C1: a start_recording call made while is_recording is true returns None,
\* creates no session directory, launches no subprocess and leaves
\* recording_processes and is_recording unchanged.
C1_StartWhileRecordingRejected ==
    [][(is_recording /\ StartRecording) =>
          /\ ret' = None
          /\ UNCHANGED <<is_recording, recording_processes, procs, session_dirs, pc,
                         stop_result>>]_vars

C1_Witness ==
    /\ last_call.op = "start_recording"
    /\ last_call.was_recording
    /\ last_call.requested >= 1
    /\ ret = None
    /\ is_recording
    /\ Len(recording_processes) >= 1

\* C2 (as claimed): right after start_recording returns, is_recording = true
\* implies that recording_processes holds at least one task.
C2_RecordingOnlyWithTasks ==
    (last_call.op = "start_recording" /\ pc = "idle" /\ is_recording)
        => Len(recording_processes) >= 1

\* C3 (as claimed): after start_recording on an idle recorder with zero devices
\* the task list is empty and the session is still idle.
C3_ZeroDevicesStaysIdle ==
    (last_call.op = "start_recording" /\ ~last_call.was_recording /\ last_call.requested = 0)
        => (recording_processes = <<>> /\ ~is_recording)

\* C4 (as claimed): when stop_recording clears recording_processes, every
\* subprocess of the list has exited and a wait on it has returned.
C4_ClearedOnlyAfterExit ==
    [][ClearAndReturn =>
          \A p \in TaskPids : procs[p].state = "exited" /\ "exited" \in Events(p)]_vars

\* C5: stop_recording never ends with an exception, however the subprocesses
\* behave.
C5_StopNeverRaises == stop_result # "raised"

C5_Witness ==
    /\ last_call.op = "stop_recording"
    /\ pc = "idle"
    /\ stop_result = "returned"
    /\ \E p \in Pids : "qfail" \in Events(p)
    /\ \E p \in Pids : {"q", "timeout5", "timeout2", "kill"} \subseteq Events(p)

\* C6: after stop_recording has returned the task list is empty and
\* is_recording is false, and is_recording goes from true to false only when
\* the shutdown loop has finished with every task of the list.
C6_IdleOnlyAfterAllProcessed ==
    /\ []((last_call.op = "stop_recording" /\ pc = "idle" /\ stop_result = "returned")
            => (recording_processes = <<>> /\ ~is_recording))
    /\ [][(is_recording /\ ~is_recording') =>
            /\ recording_processes' = <<>>
            /\ \A p \in TaskPids : "done" \in Events(p)]_vars

C6_Witness ==
    /\ last_call.op = "stop_recording"
    /\ last_call.was_recording
    /\ pc = "idle"
    /\ stop_result = "returned"
    /\ Cardinality({p \in Pids : "done" \in Events(p)}) >= 2

\* C7: at the end of the shutdown loop every task of the list has been sent at
\* least one stop action (quit byte, terminate or kill), whatever happened to
\* the tasks before it.
C7_EveryTaskGetsStopAction ==
    pc = "clear" => \A p \in TaskPids : Events(p) \cap StopActions # {}

C7_Witness ==
    /\ pc = "clear"
    /\ Len(recording_processes) >= 2
    /\ "exc" \in Events(recording_processes[1].process)
    /\ "ERROR Output file not created" \in log[recording_processes[2].process]
    /\ Events(recording_processes[2].process) \cap StopActions # {}

\* C8 (as claimed): terminate is sent only after the quit request and the
\* timeout of the 5-second wait, kill only after terminate and the timeout of
\* the 2-second wait, and a task that exits within the graceful wait gets
\* neither.
C8_EscalationAsClaimed ==
    \A p \in Pids :
        /\ \A k \in 1..Len(hist[p]) :
              /\ hist[p][k] = "terminate" => Before(p, "q", k) /\ Before(p, "timeout5", k)
              /\ hist[p][k] = "kill" => Before(p, "terminate", k) /\ Before(p, "timeout2", k)
        /\ (Len(hist[p]) >= 2 /\ hist[p][2] = "exited")
              => Events(p) \cap {"terminate", "kill"} = {}

\* C8 (amended): terminate is sent only after the timeout of the 5-second wait
\* that followed the quit request, or after an exception raised while the task
\* was handled; kill only after terminate and the timeout of the 2-second wait;
\* a task that exits within the graceful wait, with no exception raised, gets
\* neither.
C8_Escalation ==
    \A p \in Pids :
        /\ \A k \in 1..Len(hist[p]) :
              /\ hist[p][k] = "terminate" =>
                    \/ Before(p, "q", k) /\ Before(p, "timeout5", k)
                    \/ Before(p, "exc", k)
              /\ hist[p][k] = "kill" => Before(p, "terminate", k) /\ Before(p, "timeout2", k)
        /\ (Len(hist[p]) >= 2 /\ hist[p][2] = "exited" /\ "exc" \notin Events(p))
              => Events(p) \cap {"terminate", "kill"} = {}

C8_Witness ==
    /\ pc = "clear"
    /\ \E p \in TaskPids : hist[p] = <<"q", "exited", "checked", "done">>
    /\ \E p \in TaskPids : {"qfail", "exc", "terminate", "timeout2", "kill"} \subseteq Events(p)

\* C9: provided a killed subprocess exits, a stop_recording call in progress
\* returns, and every subprocess of the session exits.
C9_StopTerminates ==
    /\ (pc # "idle") ~> (pc = "idle" /\ stop_result = "returned")
    /\ \A p \in Pids :
          (pc # "idle" /\ p \in TaskPids) ~> (procs[p].state = "exited")

C9_Witness ==
    /\ pc = "idle"
    /\ stop_result = "returned"
    /\ last_call.op = "stop_recording"
    /\ \E p \in Pids : "kill" \in Events(p) /\ "exc" \notin Events(p) /\ procs[p].state = "exited"
    /\ \E p \in Pids : "kill" \in Events(p) /\ "exc" \in Events(p) /\ procs[p].state = "exited"

\* C10 (as claimed): at the end of the shutdown loop every task has an output
\* file with data in it, or an error was logged for it.
C10_FileOrErrorLogged ==
    pc = "clear" =>
        \A p \in TaskPids : files[p] = "data" \/ log[p] \cap ErrorEntries # {}

\* ------------------------------------------------------- claims on the launch

\* The state start_recording left on an idle recorder, no later call made.
AfterStart == last_call.op = "start_recording" /\ ~last_call.was_recording

IsLaunch(e) == e.ev = "launch"

IsStarted(e) == e.ev = "launch" /\ e.ok

\* The launches of the last start_recording, and those that returned a process.
Launches == SelectSeq(last_call.trace, IsLaunch)

Started == SelectSeq(last_call.trace, IsStarted)

\* C11 (as claimed): when start_recording returns on an idle recorder, the
\* list holds at most as many tasks as devices were requested and the
\* subprocess of every task is still running.
C11_TasksLiveAtReturn ==
    [][(~is_recording /\ is_recording') =>
          /\ Len(recording_processes') <= last_call'.requested
          /\ \A p \in PidsOf(recording_processes') : procs'[p].state = "running"]_vars

\* C12: a device whose launch fails gets no task, every requested device is
\* launched whatever happened to the devices before it, start_recording
\* returns the session directory, the list holds exactly the tasks of the
\* launches that succeeded, and no exception leaves start_recording.
C12_LaunchFailureIsolated ==
    AfterStart =>
        /\ ~last_call.raised
        /\ ret # None
        /\ ret[1] \in session_dirs
        /\ Len(Launches) = last_call.requested
        /\ Len(recording_processes) = Len(Started)
        /\ \A k \in 1..Len(recording_processes) :
              /\ recording_processes[k].type = Started[k].type
              /\ recording_processes[k].name = Started[k].name
              /\ recording_processes[k].output = Started[k].command.out
              /\ procs[recording_processes[k].process].state # "unborn"
        /\ \A k \in 1..Len(Launches) :
              ~Launches[k].ok =>
                  \A i \in 1..Len(recording_processes) :
                      recording_processes[i].output # Launches[k].command.out

C12_Witness ==
    /\ AfterStart
    /\ Len(Launches) = 3
    /\ ~Launches[1].ok
    /\ Launches[2].ok
    /\ ~Launches[3].ok
    /\ Len(recording_processes) = 1
    /\ recording_processes[1].type = Launches[2].type

\* C13: no two tasks of the list have the same output path, whatever the
\* device names are, and no step changes the output path of a task that stays
\* in the list.
C13_OutputPathsUniqueAndFixed ==
    [][/\ \A i, j \in 1..Len(recording_processes') :
             i # j => recording_processes'[i].output # recording_processes'[j].output
       /\ (recording_processes # <<>> /\ recording_processes' # <<>>) =>
             /\ Len(recording_processes') = Len(recording_processes)
             /\ \A i \in 1..Len(recording_processes) :
                   recording_processes'[i].output = recording_processes[i].output]_vars

C13_Witness ==
    /\ pc = "clear"
    /\ Len(recording_processes) = 2
    /\ recording_processes[1].type = recording_processes[2].type
    /\ recording_processes[1].name # recording_processes[2].name
    /\ ret # None
    /\ "inputs" \in DOMAIN ret[1]
    /\ Len(ret[1].inputs) = 2
    /\ ret[1].inputs[2].output = recording_processes[2].output

\* The devices of a request as <<type, name>>, cameras first, then microphones,
\* then monitors, each list in the order the caller gave.
RequestedDevices(req) ==
    [i \in 1..Len(Items(req.cameras)) |-> <<"camera", Items(req.cameras)[i]>>]
        \o [i \in 1..Len(Items(req.microphones)) |-> <<"microphone", Items(req.microphones)[i]>>]
        \o [i \in 1..Len(Items(req.monitors)) |-> <<"monitor", Items(req.monitors)[i].name>>]

\* C14: the devices are launched cameras first, then microphones, then
\* monitors, each list in the caller's order; the task list holds the launched
\* devices in that order; and a task is appended right after its own launch,
\* before the next launch.
C14_LaunchOrderPreserved ==
    AfterStart =>
        /\ [k \in 1..Len(Launches) |-> <<Launches[k].type, Launches[k].name>>]
              = RequestedDevices(last_call.request)
        /\ [k \in 1..Len(recording_processes) |->
                <<recording_processes[k].type, recording_processes[k].name>>]
              = [k \in 1..Len(Started) |-> <<Started[k].type, Started[k].name>>]
        /\ \A k \in 1..Len(last_call.trace) :
              /\ last_call.trace[k].ev = "append" =>
                    /\ k > 1
                    /\ IsStarted(last_call.trace[k - 1])
                    /\ last_call.trace[k - 1].type = last_call.trace[k].type
                    /\ last_call.trace[k - 1].idx = last_call.trace[k].idx
              /\ IsStarted(last_call.trace[k]) =>
                    /\ k < Len(last_call.trace)
                    /\ last_call.trace[k + 1].ev = "append"

C14_Witness ==
    /\ AfterStart
    /\ last_call.request.cameras = Some(<<Web_Cam, USB_Camera>>)
    /\ Len(Launches) = 4
    /\ ~Launches[1].ok
    /\ ~Launches[3].ok
    /\ Len(recording_processes) = 2
    /\ recording_processes[1].name = USB_Camera
    /\ recording_processes[2].type = "monitor"

\* The file name {kind}_{n}_{name with spaces replaced by underscores}.{ext}
Numeral(n) == <<"1", "2", "3", "4", "5", "6", "7", "8", "9">>[n]

Underscored(name) == [k \in 1..Len(name) |-> IF name[k] = " " THEN "_" ELSE name[k]]

FileName(kind, n, name, ext) ==
    kind \o <<"_">> \o <<Numeral(n)>> \o <<"_">> \o Underscored(name) \o <<".">> \o ext

\* C15: the device at position n (counted from 1) of its kind's list is
\* launched with the output file {kind}_{n}_{name}.{ext} in the session
\* directory, spaces of the name replaced by underscores, whatever the other
\* lists hold and whether or not earlier launches failed; a camera "USB Cam"
\* and a microphone "Def Mic" at position 1 give camera_1_USB_Cam.mp4 and
\* mic_1_Def_Mic.wav.
C15_OutputFileNaming ==
    (AfterStart /\ ~last_call.raised) =>
        LET req == last_call.request
            cameras == Items(req.cameras)
            microphones == Items(req.microphones)
            monitors == Items(req.monitors)
            File(k) == Launches[k].command.out.file
        IN /\ Len(Launches) = Len(cameras) + Len(microphones) + Len(monitors)
           /\ \A k \in 1..Len(Launches) : Launches[k].command.out.dir = ret[1]
           /\ \A n \in 1..Len(cameras) :
                 File(n) = FileName(<<"c", "a", "m", "e", "r", "a">>, n, cameras[n],
                                    <<"m", "p", "4">>)
           /\ \A n \in 1..Len(microphones) :
                 File(Len(cameras) + n) =
                     FileName(<<"m", "i", "c">>, n, microphones[n], <<"w", "a", "v">>)
           /\ \A n \in 1..Len(monitors) :
                 File(Len(cameras) + Len(microphones) + n) =
                     FileName(<<"m", "o", "n", "i", "t", "o", "r">>, n, monitors[n].name,
                              <<"m", "p", "4">>)
           /\ \A k \in 1..Len(recording_processes) :
                 recording_processes[k].output = Started[k].command.out
           /\ (cameras # <<>> /\ cameras[1] = USB_Camera) =>
                 File(1) = <<"c", "a", "m", "e", "r", "a", "_", "1", "_",
                             "U", "S", "B", "_", "C", "a", "m", ".", "m", "p", "4">>
           /\ (microphones # <<>> /\ microphones[1] = Default_Mic) =>
                 File(Len(cameras) + 1) = <<"m", "i", "c", "_", "1", "_",
                                            "D", "e", "f", "_", "M", "i", "c", ".", "w", "a", "v">>

C15_Witness ==
    /\ AfterStart
    /\ Len(Launches) = 3
    /\ ~Launches[1].ok
    /\ Len(recording_processes) = 2
    /\ recording_processes[1].output.file =
           <<"c", "a", "m", "e", "r", "a", "_", "2", "_",
             "U", "S", "B", "_", "C", "a", "m", ".", "m", "p", "4">>
    /\ recording_processes[2].output.file =
           <<"m", "i", "c", "_", "1", "_", "D", "e", "f", "_", "M", "i", "c", ".", "w", "a", "v">>

\* Reading a decimal numeral back.
Digit(c) ==
    ("0" :> 0 @@ "1" :> 1 @@ "2" :> 2 @@ "3" :> 3 @@ "4" :> 4 @@ "5" :> 5 @@ "6" :> 6
        @@ "7" :> 7 @@ "8" :> 8 @@ "9" :> 9)[c]

RECURSIVE ParseNat(_)
ParseNat(s) ==
    IF s = <<>> THEN 0
    ELSE ParseNat(SubSeq(s, 1, Len(s) - 1)) * 10 + Digit(s[Len(s)])

ParseInt(s) == IF s[1] = "-" THEN 0 - ParseNat(Tail(s)) ELSE ParseNat(s)

\* "{w}x{h}" read back as <<w, h>>
ParseSize(s) ==
    LET k == CHOOSE i \in 1..Len(s) : s[i] = "x"
    IN <<ParseInt(SubSeq(s, 1, k - 1)), ParseInt(SubSeq(s, k + 1, Len(s)))>>

\* C16: the capture size a monitor is launched with is its width and its
\* height, each minus its remainder modulo 2: both are even, neither is more
\* than 1 below the monitor's, an even side is unchanged (1921x1081 gives
\* 1920x1080); the offsets are the monitor's x and y.
C16_EvenCaptureSize ==
    AfterStart =>
        \A k \in 1..Len(Launches) :
            Launches[k].type = "monitor" =>
                LET x == Launches[k].rect[1]
                    y == Launches[k].rect[2]
                    width == Launches[k].rect[3]
                    height == Launches[k].rect[4]
                    size == ParseSize(Launches[k].command.video_size)
                IN /\ size[1] = width - (width % 2)
                   /\ size[2] = height - (height % 2)
                   /\ size[1] % 2 = 0 /\ size[2] % 2 = 0
                   /\ width - size[1] \in {0, 1} /\ height - size[2] \in {0, 1}
                   /\ (width % 2 = 0) => (size[1] = width)
                   /\ (height % 2 = 0) => (size[2] = height)
                   /\ (width = 1921 /\ height = 1081) => size = <<1920, 1080>>
                   /\ ParseInt(Launches[k].command.offset_x) = x
                   /\ ParseInt(Launches[k].command.offset_y) = y

C16_Witness ==
    /\ AfterStart
    /\ Len(Launches) = 1
    /\ Launches[1].ok
    /\ Launches[1].rect = <<-1920, 1921, 1921, 1081>>
    /\ Launches[1].command.video_size = <<"1", "9", "2", "0", "x", "1", "0", "8", "0">>
    /\ Launches[1].command.offset_x = <<"-", "1", "9", "2", "0">>
    /\ Launches[1].command.offset_y = <<"1", "9", "2", "1">>
    /\ Len(recording_processes) = 1

\* C17: stop_recording called on an idle recorder returns without an
\* exception and changes nothing: no subprocess is sent anything, no file and
\* no log entry is written, recording_processes and is_recording stay as they
\* are. A second stop_recording after one that returned is such a call.
C17_StopWhenIdleIsNoOp ==
    [][(~is_recording /\ StopRecordingCall) =>
          /\ stop_result' = "returned"
          /\ pc' = "idle"
          /\ UNCHANGED <<is_recording, recording_processes, procs, files, session_dirs,
                         hist, log>>]_vars

C17_Witness ==
    /\ last_call.op = "stop_recording"
    /\ ~last_call.was_recording
    /\ pc = "idle"
    /\ stop_result = "returned"
    /\ ~is_recording
    /\ \E p \in Pids : "done" \in Events(p)

\* C18: a start_recording made when the clock has advanced since the last
\* start creates a session directory that did not exist, and the output path
\* of every task lies in the directory of the session the task belongs to, the
\* one stamped with the time of the last start; the directories made so far
\* are stamped with that time or an earlier one. So the paths of two sessions
\* started at different times differ.
C18_SessionsDoNotCollide ==
    /\ [](\A d \in session_dirs : d.timestamp <= now)
    /\ [](\A i \in 1..Len(recording_processes) :
             /\ recording_processes[i].output.dir \in session_dirs
             /\ recording_processes[i].output.dir.timestamp = now)
    /\ [][(~is_recording /\ is_recording' /\ now' > now) =>
             /\ ret' # None
             /\ ret'[1] \notin session_dirs
             /\ ret'[1] \in session_dirs'
             /\ \A i \in 1..Len(recording_processes') :
                   recording_processes'[i].output.dir = ret'[1]]_vars

C18_Witness ==
    /\ AfterStart
    /\ stop_result = "returned"
    /\ now = 1
    /\ session_dirs = {[root |-> "output_dir", timestamp |-> 0],
                       [root |-> "output_dir", timestamp |-> 1]}
    /\ Len(recording_processes) = 2
    /\ ret[1] = [root |-> "output_dir", timestamp |-> 1]

\* ---------------------------------------------------- claims on the enumeration

ListDevicesOps == {"list_video_devices", "list_audio_devices"}

\* A line no device name can be read from.
Unparseable(line) == line.quoted = None \/ line.quoted = Some(<<>>)

\* C19: list_video_devices and list_audio_devices never end with an exception;
\* when running the media tool raises, and when no line of its output can be
\* read, they return the empty list; they leave the session as it is.
C19_EnumerationNeverFails ==
    /\ [](last_call.op \in ListDevicesOps =>
             /\ ~last_call.raised
             /\ ret # None
             /\ last_call.outcome[1].raises # "none" => ret[1] = <<>>
             /\ (\A k \in 1..Len(last_call.outcome[1].stderr) :
                    Unparseable(last_call.outcome[1].stderr[k])) => ret[1] = <<>>)
    /\ [][last_call'.op \in ListDevicesOps =>
             UNCHANGED <<is_recording, recording_processes, procs, files, session_dirs,
                         now, pc>>]_vars

C19_Witness ==
    /\ last_call.op = "list_audio_devices"
    /\ last_call.outcome[1].raises = "PermissionError"
    /\ ret = Some(<<>>)
    /\ is_recording
    /\ Len(recording_processes) = 1

\* C20: list_monitors never ends with an exception and returns at least one
\* monitor; when a platform module is missing, an OS call raises or the OS
\* enumerates no monitor, it returns exactly the monitor 'Primary Monitor' at
\* (0,0), 1920 by 1080, primary.
C20_AtLeastOneMonitor ==
    last_call.op = "list_monitors" =>
        /\ ~last_call.raised
        /\ ret # None
        /\ Len(ret[1]) >= 1
        /\ (\/ last_call.outcome[1].win32 # "ok"
            \/ last_call.outcome[1].ctypes # "ok"
            \/ last_call.outcome[1].found = <<>>) =>
              ret[1] = <<[name |-> Primary_Monitor, x |-> 0, y |-> 0, width |-> 1920,
                          height |-> 1080, is_primary |-> TRUE]>>

C20_Witness ==
    /\ last_call.op = "list_monitors"
    /\ last_call.outcome[1].win32 = "ok"
    /\ last_call.outcome[1].ctypes = "ok"
    /\ last_call.outcome[1].found = <<>>
    /\ Len(ret[1]) = 1
    /\ ret[1][1].width = 1920

\* ----------------------------------------------------- claims on the shutdown

\* The task state `stop-requested`: a stop action was sent to the subprocess
\* and the subprocess has not exited yet.
StopRequested(p) == Events(p) \cap StopActions # {} /\ procs[p].state # "exited"

\* How often event e is in the history of p.
Count(p, e) == Cardinality({k \in 1..Len(hist[p]) : hist[p][k] = e})

\* C23 (as claimed): the tasks are stopped one after the other in launch
\* order: a task is sent a stop request only when the handling of every task
\* before it has ended, and no two tasks are in the state stop-requested at
\* the same time.
C23_StoppedOneAtATime ==
    /\ \A i, j \in 1..Len(recording_processes) :
          (i < j /\ hist[recording_processes[j].process] # <<>>)
              => "done" \in Events(recording_processes[i].process)
    /\ Cardinality({p \in TaskPids : StopRequested(p)}) <= 1

\* C24 (as claimed): every task is sent exactly one quit byte, followed by the
\* close of stdin, before any terminate or kill, and a closed stdin is never
\* written to.
C24_QuitFirstAsClaimed ==
    /\ \A p \in Pids :
          /\ Count(p, "q") <= 1
          /\ \A k \in 1..Len(hist[p]) :
                hist[p][k] \in {"terminate", "kill"} => Before(p, "q", k)
    /\ pc = "clear" => \A p \in TaskPids : Count(p, "q") = 1 /\ procs[p].stdin_closed

\* C24 (amended): every task gets one attempt to write the quit byte, before
\* any terminate or kill is sent to it, and never a second one; when the write
\* succeeds, stdin is closed with it; when the write raises, no byte is written,
\* stdin stays open and the exception handler sends terminate next; a closed
\* stdin is never written to.
C24_QuitAttemptFirst ==
    /\ \A p \in Pids :
          /\ Count(p, "q") + Count(p, "qfail") <= 1
          /\ \A k \in 1..Len(hist[p]) :
                /\ hist[p][k] \in {"terminate", "kill"} =>
                      Before(p, "q", k) \/ Before(p, "qfail", k)
                /\ hist[p][k] \in {"q", "qfail"} => k = 1
                /\ hist[p][k] = "qfail" =>
                      (k < Len(hist[p]) => hist[p][k + 1] = "exc")
          /\ procs[p].stdin_closed <=> "q" \in Events(p)
    /\ pc = "clear" => \A p \in TaskPids : Count(p, "q") + Count(p, "qfail") = 1

C24_Witness ==
    /\ pc = "clear"
    /\ Len(recording_processes) = 2
    /\ SubSeq(hist[recording_processes[1].process], 1, 3) = <<"qfail", "exc", "terminate">>
    /\ ~procs[recording_processes[1].process].stdin_closed
    /\ SubSeq(hist[recording_processes[2].process], 1, 3) = <<"q", "timeout5", "terminate">>
    /\ procs[recording_processes[2].process].stdin_closed

FileCheckEntries ==
    {"INFO Saved 0 bytes", "INFO Saved n bytes", "ERROR Output file not created"}

\* C25 (as claimed): at the end of the shutdown loop the output file of every
\* task has been checked, after its subprocess exited, and the size or the
\* output-file error was logged, whichever way the task was shut down.
C25_FileCheckedOnEveryPath ==
    pc = "clear" =>
        \A p \in TaskPids :
            /\ "checked" \in Events(p)
            /\ log[p] \cap FileCheckEntries # {}

\* C26: whenever is_recording is false the task list is empty, so
\* get_recording_status never reports active inputs for a recorder that is not
\* recording.
C26_IdleMeansNoTasks ==
    /\ ~is_recording => recording_processes = <<>>
    /\ last_call.op = "get_recording_status" =>
          ~(ret[1].active_inputs > 0 /\ ~ret[1].is_recording)

C26_Witness ==
    /\ last_call.op = "get_recording_status"
    /\ ~ret[1].is_recording
    /\ ret[1].active_inputs = 0
    /\ Cardinality({p \in Pids : "done" \in Events(p)}) >= 2

\* ------------------------------------------------- claims on concurrent callers

\* The subprocesses nothing will stop: running, never sent a stop action, and
\* in no task of the list.
Untracked == {p \in Pids : procs[p].state = "running" /\ Events(p) \cap StopActions = {}
                              /\ p \notin TaskPids}

\* C28 (as claimed): when two threads call start_recording on an idle
\* recorder, a thread creates a session and launches subprocesses only while
\* no session is active, so at most one of the two does and the other returns
\* None; and no subprocess runs that is in no task of the list.
C28_OneSessionUnderThreads ==
    /\ [][\A th \in Threads :
             (callers[th].pc = "passed" /\ callers'[th].pc = "returned") => ~is_recording]_vars
    /\ [](Untracked = {})

\* ------------------------------------------------------- claims on the wizard

\* C22: the wizard has 5 pages and starts on page 0; next_step on page 0 goes
\* to page 1 and previous_step on page 1 goes back to page 0; whatever calls
\* of next_step, previous_step, overlay_complete and watermark_complete are
\* made, the page index stays within 0..4; previous_step on page 0 and
\* next_step on page 4 leave it as it is.
C22_WizardNavigation ==
    /\ [](Len(StackedWidget.pages) = 5)
    /\ [](last_call.op = "init" => current_index = 0)
    /\ [](current_index \in 0..4)
    /\ [][(current_index = 0 /\ NextStepCall) => current_index' = 1]_vars
    /\ [][(current_index = 1 /\ PreviousStep) => current_index' = 0]_vars
    /\ [][(current_index = 0 /\ PreviousStep) => current_index' = 0]_vars
    /\ [][(current_index = 4 /\ NextStepCall) => current_index' = 4]_vars

C22_Witness ==
    /\ last_call.op = "next_step"
    /\ current_index = 4
    /\ current_project.overlay_video = Some("overlay")
    /\ current_project.watermarked_video = Some("watermarked")

\* The value a get returned, with the items of the dict it refers to.
Snapshot(h, value) ==
    IF IsDict(value)
    THEN [value |-> value, items |-> Dump(h, value.ref)]
    ELSE [value |-> value, items |-> EmptyDict]

IsPrefix(a, b) == Len(a) <= Len(b) /\ SubSeq(b, 1, Len(a)) = a

Related(a, b) == IsPrefix(Split(a), Split(b)) \/ IsPrefix(Split(b), Split(a))

\* A step in which set(k, v) returned without an exception.
SetSucceeds ==
    /\ config_calls' = config_calls + 1
    /\ last_call'.op = "set"
    /\ ~last_call'.raised

DefaultsUntouched ==
    \A id \in DOMAIN ClassHeap : id \in DOMAIN heap /\ heap[id] = ClassHeap[id]

\* A manager made when there is no configuration file holds the default values
\* of the class definition, but for the output folder load_config fills in.
StartsFromDefaults ==
    (last_call'.op = "ConfigManager" /\ config_calls' = config_calls + 1
        /\ config_file.state = "absent")
    => Dump(heap', config')
           = [Dump(ClassHeap, DEFAULT_CONFIG) EXCEPT
                 ![installation].items[output_folder].s = "Downloads"]

\* C29: load_config without a configuration file and set(k, v) never modify
\* DEFAULT_CONFIG nor its nested section dicts, and a manager made afterwards
\* without a configuration file starts from the original default values.
C29_DefaultsStayLocal == []DefaultsUntouched /\ [][StartsFromDefaults]_vars

\* --------------------------------------------------- claims on the main window

\* The subprocesses that keep running: running, and not killed.
Orphans == {p \in Pids : procs[p].state = "running" /\ ~procs[p].killed}

\* C27 (as claimed): once the stop handler of the main window has completed,
\* no capture subprocess the application launched is still running (a killed
\* one the OS has yet to end aside); and at no time, in particular not after
\* select_output_folder replaced the recorder, is a running subprocess that was
\* never sent a stop action missing from the recorder's list of tasks.
C27_NoOrphansAtApplicationLevel ==
    /\ [][(handler = "stop_recording" /\ handler' = "none") => Orphans' = {}]_vars
    /\ [](Untracked = {})

====
